---- MODULE Spec2Model ----
(***************************************************************************)
(* TypedEventEmitter (src/unnamed/part_000, lines 44-182): a class that    *)
(* extends node:events' EventEmitter and narrows the types of its methods. *)
(* Every method delegates to the base class method bound in lines 50-62,   *)
(* so the behaviour modelled here is that of the base class as the wrapper *)
(* calls it: _addListener, _onceWrap/onceWrapper, removeListener (which    *)
(* scans the array from its END), removeAllListeners, listeners            *)
(* (unwrapping once wrappers) and emit (arrayClone, then a synchronous     *)
(* loop; an 'error' event without listeners is thrown).                    *)
(*                                                                         *)
(* emit is modelled in steps (the call, one step per listener invocation,  *)
(* one step per listener outcome, the return) over a stack of emission     *)
(* frames; all other operations are single steps.                          *)
(*                                                                         *)
(* Scope of Spec: one dispatcher; the host calls the operations one after  *)
(* another; listener bodies either return or throw and do not themselves   *)
(* call the dispatcher; the event map declares the keys of HostKeys        *)
(* (none named newListener or removeListener, the base class's own events).*)
(* The base class's warning for more than ten listeners of one event is    *)
(* output only and changes no state; it is not modelled.                   *)
(*                                                                         *)
(* SpecInside lets listener bodies call the dispatcher (on, once, off,     *)
(* removeAllListeners, emit) and notes their calls in did; SpecMeta is the *)
(* dispatcher of an event map that declares newListener and                *)
(* removeListener, for which the base class makes emissions of its own.    *)
(*                                                                         *)
(* pre, ret and calls record the host's current call (the registry before  *)
(* it, its arguments and outcome, the listener invocations it made): the   *)
(* properties are stated over them.  hostContinues drops the record.       *)
(*                                                                         *)
(* Logger (src/src/logger/index.ts): a class that writes prefixed messages *)
(* to the console when the current NODE_ENV is in its list of              *)
(* environments.  It shares nothing with the dispatcher; it has its own    *)
(* variables and its own specification, SpecLogger.                        *)
(***************************************************************************)
EXTENDS Integers, Sequences, FiniteSets, TLC

\* Bound of the model: the total number of entries held by the registry.
MaxEntries == 3

\* TestEvents (part_000:188-193) declares message, data, complete, error;
\* data and complete behave as message does and are left out; "" is a key a
\* host's event map may declare (keyof T), and so are newListener and
\* removeListener, the names of the base class's own events.
KeyOrder == <<"message", "error", "", "newListener", "removeListener">>

EventKeys == {KeyOrder[n] : n \in 1..Len(KeyOrder)}

\* The keys of an event map that declares neither of the base class's events.
HostKeys == {"message", "error", ""}

\* Listener functions of the host (vi.fn() values in the tests); identity is
\* the name.
Callbacks == {"A", "B", "C"}

\* Argument lists passed to emit.
ArgLists == {<<>>, <<1>>}

\* Identities of once wrappers (_onceWrap returns a new function each call).
WrapIds == 1..(2 * MaxEntries)

VARIABLES
    events,   \* _events: event key -> ordered entries (absent = empty)
    fired,    \* once wrappers whose state.fired is true
    stack,    \* emissions in progress, innermost last
    calls,    \* listener invocations made by the current/last host call
    pre,      \* _events as it was when the current/last host call began
    ret,      \* the current/last host call and its outcome
    self,     \* which of two dispatchers the six variables above describe
    other,    \* _events of the dispatcher they do not describe
    held,     \* the array the host holds: the last one listeners() returned
    code,     \* Logger: this.code
    env,      \* Logger: this.env
    nodeEnv,  \* process.env.NODE_ENV (None when unset)
    console,  \* console calls made by the current/last call of the logger
    lcall,    \* the current/last call of the logger
    opts,     \* the options the logger was constructed with
    did,      \* dispatcher calls made by listeners during the host's call
    spent     \* events whose only listener, a once entry, an emit has used up

\* The state of the dispatcher under call.
dispatcher == <<events, fired, stack, calls, pre, ret>>

\* The logger, the process environment and the console.
logging == <<code, env, nodeEnv, console, lcall, opts>>

\* The state outside the dispatcher under call.
outside == <<self, other, held, logging, did, spent>>

vars == <<dispatcher, outside>>

----------------------------------------------------------------------------
\* Entries.  A plain entry is the listener itself; a once entry is the
\* wrapper made by _onceWrap, whose .listener is the original function.

PlainEntry(cb) == [listener |-> cb, wrap |-> 0]

WrapsIn(list) == {list[j].wrap : j \in 1..Len(list)} \ {0}

LiveWraps(ev, st, log) ==
    UNION {WrapsIn(ev[k]) : k \in DOMAIN ev}
    \cup UNION {WrapsIn(st[j].listeners) : j \in 1..Len(st)}
    \cup ({log[j].wrap : j \in 1..Len(log)} \ {0})

\* once registered as if by on: the listener itself, no wrapper.
OnceWrapPlain(cb) == PlainEntry(cb)

\* Wrappers the notes of the listeners' calls refer to.
NotedWraps == {did[x].wrap : x \in 1..Len(did)}

\* _onceWrap: a new wrapper function around cb.
OnceWrap(cb) ==
    LET free == WrapIds \ (LiveWraps(events, stack, calls) \cup NotedWraps)
    IN  [listener |-> cb,
         wrap |-> CHOOSE w \in free : \A v \in free : w <= v]

RECURSIVE CountUpTo(_, _, _)
\* The number of entries (wrappersOnly: of once wrappers) under the first n keys.
CountUpTo(ev, n, wrappersOnly) ==
    IF n = 0 THEN 0
    ELSE LET list == ev[KeyOrder[n]]
         IN  CountUpTo(ev, n - 1, wrappersOnly)
             + Cardinality({j \in 1..Len(list) :
                              wrappersOnly => list[j].wrap # 0})

TotalEntries == CountUpTo(events, Len(KeyOrder), FALSE)

\* Wrapper identities are arbitrary: the registry with its wrappers renamed
\* 1, 2, ... in order of appearance.  No operation can tell the difference.
Renamed(ev) ==
    [k \in DOMAIN ev |->
       LET n == CHOOSE m \in 1..Len(KeyOrder) : KeyOrder[m] = k
           base == CountUpTo(ev, n - 1, TRUE)
       IN  [j \in 1..Len(ev[k]) |->
              IF ev[k][j].wrap = 0 THEN ev[k][j]
              ELSE [ev[k][j] EXCEPT !.wrap =
                      base + Cardinality({h \in 1..j : ev[k][h].wrap # 0})]]]

\* unwrapListeners: each entry's original function.
Unwrap(list) == [j \in 1..Len(list) |-> list[j].listener]

\* listeners(event)
Listeners(k) == Unwrap(events[k])

----------------------------------------------------------------------------
\* The host's calls.  ret describes the call being made or just made: the
\* operation, its arguments and its outcome (val: "this", "true", "false",
\* "array", "throw", or "pending" while an emission runs).  Between two calls
\* the host is idle and nothing of the previous call is kept.

None == "-"

Call(op, k, cb, args, val) ==
    [op |-> op, type |-> k, listener |-> cb, args |-> args,
     val |-> val, err |-> None, list |-> <<>>]

Idle == Call("idle", None, None, <<>>, None)

Init ==
    /\ events = [k \in EventKeys |-> <<>>]
    /\ fired = {}
    /\ stack = <<>>
    /\ calls = <<>>
    /\ pre = [k \in EventKeys |-> <<>>]
    /\ ret = Idle
    /\ self = 1
    /\ other = [k \in EventKeys |-> <<>>]
    /\ held = [alias |-> None, items |-> <<>>]
    /\ code = "APP"
    /\ env = <<>>
    /\ nodeEnv = "test"
    /\ console = <<>>
    /\ lcall = [method |-> "idle", message |-> None, args |-> <<>>,
                before |-> -1]
    /\ opts = [f \in {} |-> None]
    /\ did = <<>>
    /\ spent = {}

\* Wrappers no longer referenced lose their state (they are garbage).
Collect(f, ev, st, log) == f \cap LiveWraps(ev, st, log)

----------------------------------------------------------------------------
\* Insertion that always unshifts.
InsertEntryAtFront(list, e, prepend) == <<e>> \o list

\* Insertion that always pushes.
InsertEntryAtEnd(list, e, prepend) == Append(list, e)

\* Insertion that skips a listener the event already has.
InsertEntryUnique(list, e, prepend) ==
    IF \E j \in 1..Len(list) : list[j].listener = e.listener THEN list
    ELSE IF prepend THEN <<e>> \o list ELSE Append(list, e)

\* _addListener(target, type, listener, prepend): the insertion
\* (push / unshift, or a new two-element array).
InsertEntry(list, e, prepend) ==
    IF prepend THEN <<e>> \o list ELSE Append(list, e)

\* The operations that end in _addListener.
AddOps == {"on", "once", "prependListener", "prependOnceListener"}

addListener(op, k, cb, isOnce, prepend) ==
    /\ ret = Idle
    /\ TotalEntries < MaxEntries
    /\ LET e == IF isOnce THEN OnceWrap(cb) ELSE PlainEntry(cb)
       IN  events' = [events EXCEPT ![k] = InsertEntry(@, e, prepend)]
    /\ pre' = events
    /\ ret' = Call(op, k, cb, <<>>, "this")
    /\ UNCHANGED <<fired, stack, calls>>

on(k, cb) == addListener("on", k, cb, FALSE, FALSE)

once(k, cb) == addListener("once", k, cb, TRUE, FALSE)

prependListener(k, cb) == addListener("prependListener", k, cb, FALSE, TRUE)

prependOnceListener(k, cb) ==
    addListener("prependOnceListener", k, cb, TRUE, TRUE)

----------------------------------------------------------------------------
\* A scan from the front of the array.
MatchIndexFirst(list, cb) ==
    LET hits == {j \in 1..Len(list) : list[j].listener = cb}
    IN  IF hits = {} THEN 0 ELSE CHOOSE j \in hits : \A h \in hits : j <= h

\* A scan that compares list[i] === listener only, and so never matches a
\* once wrapper.
MatchIndexPlainOnly(list, cb) ==
    LET hits == {j \in 1..Len(list) : list[j] = PlainEntry(cb)}
    IN  IF hits = {} THEN 0 ELSE CHOOSE j \in hits : \A h \in hits : h <= j

\* removeListener(type, listener): the index of the entry removed, 0 when
\* none matches.  The base class scans from the end of the array
\* (for i = list.length - 1 down to 0) and matches list[i] === listener or
\* list[i].listener === listener.
MatchIndex(list, cb) ==
    LET hits == {j \in 1..Len(list) : list[j].listener = cb}
    IN  IF hits = {} THEN 0 ELSE CHOOSE j \in hits : \A h \in hits : h <= j

\* spliceOne / list.shift(): the list without the entry at index p.
SpliceOne(list, p) ==
    [j \in 1..(Len(list) - 1) |-> IF j < p THEN list[j] ELSE list[j + 1]]

RemoveEntry(list, cb) ==
    LET p == MatchIndex(list, cb)
    IN  IF p = 0 THEN list ELSE SpliceOne(list, p)

\* A removal that returns nothing when no entry matches.
removeListenerOpNoReturn(op, k, cb) ==
    /\ ret = Idle
    /\ events' = [events EXCEPT ![k] = RemoveEntry(@, cb)]
    /\ pre' = events
    /\ ret' = Call(op, k, cb, <<>>,
                   IF MatchIndex(events[k], cb) = 0 THEN "undefined"
                   ELSE "this")
    /\ fired' = Collect(fired, events', stack, calls)
    /\ UNCHANGED <<stack, calls>>

removeListenerOp(op, k, cb) ==
    /\ ret = Idle
    /\ events' = [events EXCEPT ![k] = RemoveEntry(@, cb)]
    /\ pre' = events
    /\ ret' = Call(op, k, cb, <<>>, "this")
    /\ fired' = Collect(fired, events', stack, calls)
    /\ UNCHANGED <<stack, calls>>

\* An off that removes every entry of the listener, not one.
offRemovesEvery(k, cb) ==
    /\ ret = Idle
    /\ events' = [events EXCEPT
                    ![k] = SelectSeq(@, LAMBDA e : e.listener # cb)]
    /\ pre' = events
    /\ ret' = Call("off", k, cb, <<>>, "this")
    /\ fired' = Collect(fired, events', stack, calls)
    /\ UNCHANGED <<stack, calls>>

off(k, cb) == removeListenerOp("off", k, cb)

removeListener(k, cb) == removeListenerOp("removeListener", k, cb)

\* JavaScript truthiness of an event key: the empty string is falsy.
Truthy(k) == k # ""

\* EventEmitter.prototype.removeAllListeners with one argument / with none.
ClearEvent(ev, k) == [ev EXCEPT ![k] = <<>>]

ClearAll(ev) == [k \in DOMAIN ev |-> <<>>]

\* event ? this._baseRemoveAllListeners(event) : this._baseRemoveAllListeners()
RemoveAll(ev, k) == IF Truthy(k) THEN ClearEvent(ev, k) ELSE ClearAll(ev)

\* removeAllListeners(event)
removeAllListeners(k) ==
    /\ ret = Idle
    /\ events' = RemoveAll(events, k)
    /\ pre' = events
    /\ ret' = Call("removeAllListeners", k, None, <<>>, "this")
    /\ fired' = Collect(fired, events', stack, calls)
    /\ UNCHANGED <<stack, calls>>

\* removeAllListeners(): the argument is undefined, which is falsy.
removeAllListenersNoArg ==
    /\ ret = Idle
    /\ events' = ClearAll(events)
    /\ pre' = events
    /\ ret' = Call("removeAllListeners()", None, None, <<>>, "this")
    /\ fired' = Collect(fired, events', stack, calls)
    /\ UNCHANGED <<stack, calls>>

\* listeners(event): a new array of the unwrapped listeners.
listeners(k) ==
    /\ ret = Idle
    /\ pre' = events
    /\ ret' = [Call("listeners", k, None, <<>>, "array")
                 EXCEPT !.list = Listeners(k)]
    /\ UNCHANGED <<events, fired, stack, calls>>

----------------------------------------------------------------------------
\* emit(type, ...args)

\* No special case for the 'error' event.
DoErrorNever(ev, k) == FALSE

\* doError: the event is 'error' and events.error is undefined.
DoError(ev, k) == k = "error" /\ ev["error"] = <<>>

\* A copy in reverse order.
ArrayCloneReversed(list) ==
    [j \in 1..Len(list) |-> list[Len(list) + 1 - j]]

\* arrayClone(handler): the copy of the array the loop runs over (a single
\* function handler is called directly, which is the same as a copy of one).
ArrayClone(list) == list

Top == stack[Len(stack)]

\* A loop over the event's array itself, not over a copy of it.
SnapshotLive(f) == events[f.type]

\* The array an emission's loop runs over: the copy made when it began.
Snapshot(f) == f.listeners

SetTop(f) == [stack EXCEPT ![Len(stack)] = f]

\* An emit that runs the listeners of every event, whatever the key.
emitAnyEvent(k, args) ==
    LET all == events["message"] \o events["error"] \o events[""]
    IN  /\ ret = Idle
        /\ pre' = events
        /\ IF all = <<>>
           THEN /\ ret' = Call("emit", k, None, args, "false")
                /\ UNCHANGED stack
           ELSE /\ ret' = Call("emit", k, None, args, "pending")
                /\ stack' = Append(stack,
                       [type |-> k, args |-> args, listeners |-> all,
                        i |-> 1, pc |-> "loop", at |-> 0])
        /\ UNCHANGED <<events, fired, calls>>

\* The call of emit: throws the unhandled 'error', returns false when the
\* event has no handler, or starts the loop over the copied array.
emit(k, args) ==
    /\ ret = Idle
    /\ pre' = events
    /\ IF DoError(events, k)
       THEN /\ ret' = [Call("emit", k, None, args, "throw")
                         EXCEPT !.err = "unhandled"]
            /\ UNCHANGED stack
       ELSE IF events[k] = <<>>
       THEN /\ ret' = Call("emit", k, None, args, "false")
            /\ UNCHANGED stack
       ELSE /\ ret' = Call("emit", k, None, args, "pending")
            /\ stack' = Append(stack,
                   [type |-> k, args |-> args,
                    listeners |-> ArrayClone(events[k]),
                    i |-> 1, pc |-> "loop", at |-> 0])
    /\ UNCHANGED <<events, fired, calls>>

\* A wrapper that does not remove itself.
RemoveWrapperKeeps(list, w) == list

\* A wrapper that removes every listener of its event.
RemoveWrapperClears(list, w) == <<>>

\* onceWrapper: this.target.removeListener(this.type, this.wrapFn), which
\* matches the wrapper itself.
RemoveWrapper(list, w) ==
    LET hits == {j \in 1..Len(list) : list[j].wrap = w}
    IN  IF hits = {} THEN list
        ELSE SpliceOne(list, CHOOSE j \in hits : \A h \in hits : h <= j)

\* The arguments handed over in reverse order.
AppliedReversed(args) == [j \in 1..Len(args) |-> args[Len(args) + 1 - j]]

\* The argument list a listener is applied to: listeners[i].apply(this, args)
Applied(args) == args

\* A once wrapper without its fired flag: it removes itself and calls its
\* listener every time it is called.
callListenerIgnoresFired ==
    /\ stack # <<>>
    /\ Top.pc = "loop"
    /\ Top.i <= Len(Snapshot(Top))
    /\ LET f == Top
           e == Snapshot(f)[f.i]
       IN  /\ events' = IF e.wrap = 0 THEN events
                        ELSE [events EXCEPT
                                ![f.type] = RemoveWrapper(@, e.wrap)]
           /\ calls' = Append(calls,
                  [listener |-> e.listener, wrap |-> e.wrap,
                   args |-> Applied(f.args), depth |-> Len(stack),
                   out |-> "running"])
           /\ stack' = SetTop([f EXCEPT !.pc = "body",
                                        !.at = Len(calls) + 1])
    /\ UNCHANGED <<fired, pre, ret>>

\* An emission that looks its next listener up in the registry before it
\* calls it, and passes over the ones no longer there.
callListenerSkipsRemoved ==
    /\ stack # <<>>
    /\ Top.pc = "loop"
    /\ Top.i <= Len(Snapshot(Top))
    /\ LET f == Top
           e == Snapshot(f)[f.i]
       IN  IF \A p \in 1..Len(events[f.type]) : events[f.type][p] # e
           THEN /\ stack' = SetTop([f EXCEPT !.i = f.i + 1])
                /\ UNCHANGED <<events, fired, calls>>
           ELSE /\ events' = IF e.wrap = 0 THEN events
                             ELSE [events EXCEPT
                                     ![f.type] = RemoveWrapper(@, e.wrap)]
                /\ fired' = IF e.wrap = 0 THEN fired ELSE fired \cup {e.wrap}
                /\ calls' = Append(calls,
                       [listener |-> e.listener, wrap |-> e.wrap,
                        args |-> Applied(f.args), depth |-> Len(stack),
                        out |-> "running"])
                /\ stack' = SetTop([f EXCEPT !.pc = "body",
                                             !.at = Len(calls) + 1])
    /\ UNCHANGED <<pre, ret>>

\* listeners[i].apply(this, args): the next listener of the loop is entered.
\* A once wrapper that has fired does nothing; one that has not removes
\* itself, sets fired and then calls its listener.
callListener ==
    /\ stack # <<>>
    /\ Top.pc = "loop"
    /\ Top.i <= Len(Snapshot(Top))
    /\ LET f == Top
           e == Snapshot(f)[f.i]
       IN  IF e.wrap # 0 /\ e.wrap \in fired
           THEN /\ stack' = SetTop([f EXCEPT !.i = f.i + 1])
                /\ UNCHANGED <<events, fired, calls>>
           ELSE /\ events' = IF e.wrap = 0 THEN events
                             ELSE [events EXCEPT
                                     ![f.type] = RemoveWrapper(@, e.wrap)]
                /\ fired' = IF e.wrap = 0 THEN fired ELSE fired \cup {e.wrap}
                /\ calls' = Append(calls,
                       [listener |-> e.listener, wrap |-> e.wrap,
                        args |-> Applied(f.args), depth |-> Len(stack),
                        out |-> "running"])
                /\ stack' = SetTop([f EXCEPT !.pc = "body",
                                             !.at = Len(calls) + 1])
    /\ UNCHANGED <<pre, ret>>

\* The listener running in the innermost emission returns: the loop goes on.
listenerReturns ==
    /\ stack # <<>>
    /\ Top.pc = "body"
    /\ calls' = [calls EXCEPT ![Top.at].out = "returned"]
    /\ stack' = SetTop([Top EXCEPT !.pc = "loop", !.i = Top.i + 1])
    /\ UNCHANGED <<events, fired, pre, ret>>

\* An emit that catches a listener's error and goes on with the loop.
listenerThrowsCaught ==
    /\ stack # <<>>
    /\ Top.pc = "body"
    /\ calls' = [calls EXCEPT ![Top.at].out = "threw"]
    /\ stack' = SetTop([Top EXCEPT !.pc = "loop", !.i = Top.i + 1])
    /\ UNCHANGED <<events, fired, pre, ret>>

\* An emit that puts the registry back as it was when a listener throws.
listenerThrowsRollsBack ==
    /\ stack # <<>>
    /\ Top.pc = "body"
    /\ calls' = [calls EXCEPT ![Top.at].out = "threw"]
    /\ stack' = <<>>
    /\ ret' = [ret EXCEPT !.val = "throw", !.err = calls[Top.at].listener]
    /\ events' = pre
    /\ fired' = {}
    /\ UNCHANGED pre

\* The listener running in the innermost emission throws: emit has no
\* try/catch, the error leaves every emission in progress.
listenerThrows ==
    /\ stack # <<>>
    /\ Top.pc = "body"
    /\ calls' = [calls EXCEPT ![Top.at].out = "threw"]
    /\ stack' = <<>>
    /\ ret' = [ret EXCEPT !.val = "throw", !.err = calls[Top.at].listener]
    /\ fired' = Collect(fired, events, <<>>, calls)
    /\ UNCHANGED <<events, pre>>

\* The loop is over: emit returns true.
emitReturns ==
    /\ stack # <<>>
    /\ Top.pc = "loop"
    /\ Top.i > Len(Snapshot(Top))
    /\ stack' = SubSeq(stack, 1, Len(stack) - 1)
    /\ ret' = IF Len(stack) = 1 THEN [ret EXCEPT !.val = "true"] ELSE ret
    /\ fired' = Collect(fired, events, stack', calls)
    /\ UNCHANGED <<events, calls, pre>>

\* The host has seen the outcome of its call and goes on to its next
\* statement.
hostContinues ==
    /\ ret # Idle
    /\ stack = <<>>
    /\ ret' = Idle
    /\ events' = Renamed(events)
    /\ pre' = events'
    /\ calls' = <<>>
    /\ fired' = {Renamed(events)[k][j].wrap :
                    <<k, j>> \in {<<k, j>> \in EventKeys \X (1..MaxEntries) :
                                    /\ j <= Len(events[k])
                                    /\ events[k][j].wrap \in fired}}
    /\ UNCHANGED stack

Next ==
    \/ (\E k \in HostKeys, cb \in Callbacks : on(k, cb)) /\ UNCHANGED outside
    \/ (\E k \in HostKeys, cb \in Callbacks : once(k, cb)) /\ UNCHANGED outside
    \/ (\E k \in HostKeys, cb \in Callbacks : prependListener(k, cb)) /\ UNCHANGED outside
    \/ (\E k \in HostKeys, cb \in Callbacks : prependOnceListener(k, cb)) /\ UNCHANGED outside
    \/ (\E k \in HostKeys, cb \in Callbacks : off(k, cb)) /\ UNCHANGED outside
    \/ (\E k \in HostKeys, cb \in Callbacks : removeListener(k, cb)) /\ UNCHANGED outside
    \/ (\E k \in HostKeys : removeAllListeners(k)) /\ UNCHANGED outside
    \/ removeAllListenersNoArg /\ UNCHANGED outside
    \/ (\E k \in HostKeys : listeners(k)) /\ UNCHANGED outside
    \/ (\E k \in HostKeys, args \in ArgLists : emit(k, args)) /\ UNCHANGED outside
    \/ callListener /\ UNCHANGED outside
    \/ listenerReturns /\ UNCHANGED outside
    \/ listenerThrows /\ UNCHANGED outside
    \/ emitReturns /\ UNCHANGED outside
    \/ hostContinues /\ UNCHANGED outside

Spec == Init /\ [][Next]_vars

----------------------------------------------------------------------------
\* Two dispatchers, each made by its own `new` (part_000:746-763).  The
\* constructor (44-62) calls super(), which gives the instance its own
\* _events, and binds the base methods to the instance; the class declares
\* no static member.  The host calls one dispatcher at a time: the six
\* variables of a dispatcher describe the one under call, other is the
\* registry of the one at rest.

\* Events and listeners of the hosts of two dispatchers.
TwoKeys == {"message", "error"}

TwoCallbacks == {"A", "B"}

\* Entries held by both dispatchers together.
BothEntries == TotalEntries + CountUpTo(other, Len(KeyOrder), FALSE)

\* Two names for one registry: what a registry shared by all instances
\* would give.
hostSwitchesShared ==
    /\ ret = Idle
    /\ self' = 3 - self
    /\ other' = events
    /\ UNCHANGED <<dispatcher, held, logging, did, spent>>

\* The host turns to its other dispatcher.
hostSwitches ==
    /\ ret = Idle
    /\ self' = 3 - self
    /\ events' = other
    /\ other' = events
    /\ pre' = other
    /\ UNCHANGED <<fired, stack, calls, ret, held, logging, did, spent>>

NextTwo ==
    \/ (\E k \in TwoKeys, cb \in TwoCallbacks :
          BothEntries < MaxEntries /\ on(k, cb)) /\ UNCHANGED outside
    \/ (\E k \in TwoKeys, cb \in TwoCallbacks :
          BothEntries < MaxEntries /\ once(k, cb)) /\ UNCHANGED outside
    \/ (\E k \in TwoKeys, cb \in TwoCallbacks :
          BothEntries < MaxEntries /\ prependListener(k, cb))
          /\ UNCHANGED outside
    \/ (\E k \in TwoKeys, cb \in TwoCallbacks :
          BothEntries < MaxEntries /\ prependOnceListener(k, cb))
          /\ UNCHANGED outside
    \/ (\E k \in TwoKeys, cb \in TwoCallbacks : off(k, cb))
          /\ UNCHANGED outside
    \/ (\E k \in TwoKeys, cb \in TwoCallbacks : removeListener(k, cb))
          /\ UNCHANGED outside
    \/ (\E k \in TwoKeys : removeAllListeners(k)) /\ UNCHANGED outside
    \/ removeAllListenersNoArg /\ UNCHANGED outside
    \/ (\E k \in TwoKeys : listeners(k)) /\ UNCHANGED outside
    \/ (\E k \in TwoKeys : emit(k, <<1>>)) /\ UNCHANGED outside
    \/ callListener /\ UNCHANGED outside
    \/ listenerReturns /\ UNCHANGED outside
    \/ listenerThrows /\ UNCHANGED outside
    \/ emitReturns /\ UNCHANGED outside
    \/ hostContinues /\ UNCHANGED outside
    \/ hostSwitches

SpecTwo == Init /\ [][NextTwo]_vars

----------------------------------------------------------------------------
\* The host keeps the array listeners(event) returned (part_000:503-513)
\* and changes it, or changes the registry afterwards.  An array is an
\* object: held.alias names the event whose internal array it is, None when
\* it is an array of its own, whose elements are then held.items.

\* The internal array itself handed out, instead of a copy.
ReturnedArrayInternal(k) == [alias |-> k, items |-> Listeners(k)]

\* listeners(event) -> _listeners(this, type, true): [] when the event has
\* no entry, else unwrapListeners(list), a new array in both cases.
ReturnedArray(k) == [alias |-> None, items |-> Listeners(k)]

\* The elements of the array the host holds.
HeldItems ==
    IF held.alias = None THEN held.items ELSE Listeners(held.alias)

\* const result = emitter.listeners(event)
hostHolds(k) ==
    /\ listeners(k)
    /\ held' = ReturnedArray(k)
    /\ UNCHANGED <<self, other, logging, did, spent>>

\* result.push(cb)
hostPushes(cb) ==
    /\ ret = Idle
    /\ Len(HeldItems) < MaxEntries
    /\ IF held.alias = None
       THEN /\ held' = [held EXCEPT !.items = Append(@, cb)]
            /\ UNCHANGED events
       ELSE /\ events' = [events EXCEPT
                            ![held.alias] = Append(@, PlainEntry(cb))]
            /\ UNCHANGED held
    /\ UNCHANGED <<fired, stack, calls, pre, ret, self, other, logging,
                   did, spent>>

\* result.length = 0
hostEmpties ==
    /\ ret = Idle
    /\ HeldItems # <<>>
    /\ IF held.alias = None
       THEN /\ held' = [held EXCEPT !.items = <<>>]
            /\ UNCHANGED events
       ELSE /\ events' = [events EXCEPT ![held.alias] = <<>>]
            /\ UNCHANGED held
    /\ UNCHANGED <<fired, stack, calls, pre, ret, self, other, logging,
                   did, spent>>

NextHeld ==
    \/ (\E k \in TwoKeys, cb \in TwoCallbacks : on(k, cb))
          /\ UNCHANGED outside
    \/ (\E k \in TwoKeys, cb \in TwoCallbacks : once(k, cb))
          /\ UNCHANGED outside
    \/ (\E k \in TwoKeys, cb \in TwoCallbacks : prependListener(k, cb))
          /\ UNCHANGED outside
    \/ (\E k \in TwoKeys, cb \in TwoCallbacks : prependOnceListener(k, cb))
          /\ UNCHANGED outside
    \/ (\E k \in TwoKeys, cb \in TwoCallbacks : off(k, cb))
          /\ UNCHANGED outside
    \/ (\E k \in TwoKeys, cb \in TwoCallbacks : removeListener(k, cb))
          /\ UNCHANGED outside
    \/ (\E k \in TwoKeys : removeAllListeners(k)) /\ UNCHANGED outside
    \/ removeAllListenersNoArg /\ UNCHANGED outside
    \/ (\E k \in TwoKeys : emit(k, <<1>>)) /\ UNCHANGED outside
    \/ callListener /\ UNCHANGED outside
    \/ listenerReturns /\ UNCHANGED outside
    \/ listenerThrows /\ UNCHANGED outside
    \/ emitReturns /\ UNCHANGED outside
    \/ hostContinues /\ UNCHANGED outside
    \/ \E k \in TwoKeys : hostHolds(k)
    \/ \E cb \in TwoCallbacks : hostPushes(cb)
    \/ hostEmpties

SpecHeld == Init /\ [][NextHeld]_vars

----------------------------------------------------------------------------
\* Emissions with up to two arguments (the event data of TestEvents,
\* part_000:190, takes two), on a dispatcher with two events and two
\* listeners.
LongArgLists == ArgLists \cup {<<2, 1>>}

NextArgs ==
    \/ (\E k \in TwoKeys, cb \in TwoCallbacks : on(k, cb))
          /\ UNCHANGED outside
    \/ (\E k \in TwoKeys, cb \in TwoCallbacks : once(k, cb))
          /\ UNCHANGED outside
    \/ (\E k \in TwoKeys, cb \in TwoCallbacks : prependListener(k, cb))
          /\ UNCHANGED outside
    \/ (\E k \in TwoKeys, cb \in TwoCallbacks : prependOnceListener(k, cb))
          /\ UNCHANGED outside
    \/ (\E k \in TwoKeys, cb \in TwoCallbacks : off(k, cb))
          /\ UNCHANGED outside
    \/ (\E k \in TwoKeys, args \in LongArgLists : emit(k, args))
          /\ UNCHANGED outside
    \/ callListener /\ UNCHANGED outside
    \/ listenerReturns /\ UNCHANGED outside
    \/ listenerThrows /\ UNCHANGED outside
    \/ emitReturns /\ UNCHANGED outside
    \/ hostContinues /\ UNCHANGED outside

SpecArgs == Init /\ [][NextArgs]_vars

----------------------------------------------------------------------------
\* Listeners that call the dispatcher they are registered with while they
\* run: a listener's body may add and remove listeners and emit.  The calls
\* are those of the host, made while an emission is in progress; they are
\* noted in did with the invocation that made them (by), the number of
\* invocations begun so far (n) and the depth of the emission.

\* Bounds of the model: dispatcher calls made by listeners during one call
\* of the host, and entries held by the registry of such listeners.
MaxInside == 1

MaxInsideEntries == 2

\* The event of the host whose listeners call the dispatcher.
InsideKeys == {"message"}

\* The state no listener touches.
untouched == <<self, other, held, logging, spent>>

\* A listener's body is running and may call the dispatcher.
Running ==
    /\ stack # <<>>
    /\ Top.pc = "body"
    /\ Len(did) < MaxInside

Note(op, k, cb, w) ==
    [op |-> op, type |-> k, listener |-> cb, wrap |-> w,
     by |-> Top.at, n |-> Len(calls), depth |-> Len(stack)]

\* on / once / prependListener / prependOnceListener called by a listener
addInside(op, k, cb, isOnce, prepend) ==
    /\ Running
    /\ TotalEntries < MaxInsideEntries
    /\ LET e == IF isOnce THEN OnceWrap(cb) ELSE PlainEntry(cb)
       IN  /\ events' = [events EXCEPT ![k] = InsertEntry(@, e, prepend)]
           /\ did' = Append(did, Note(op, k, cb, e.wrap))
    /\ UNCHANGED <<fired, stack, calls, pre, ret>>

onInside(k, cb) == addInside("on", k, cb, FALSE, FALSE)

onceInside(k, cb) == addInside("once", k, cb, TRUE, FALSE)

prependListenerInside(k, cb) ==
    addInside("prependListener", k, cb, FALSE, TRUE)

prependOnceListenerInside(k, cb) ==
    addInside("prependOnceListener", k, cb, TRUE, TRUE)

\* off called by a listener; the note holds the wrapper of the entry removed
\* (0: a regular entry, -1: no entry)
offInside(k, cb) ==
    /\ Running
    /\ events' = [events EXCEPT ![k] = RemoveEntry(@, cb)]
    /\ did' = Append(did,
                 Note("off", k, cb,
                      IF MatchIndex(events[k], cb) = 0 THEN -1
                      ELSE events[k][MatchIndex(events[k], cb)].wrap))
    /\ fired' = Collect(fired, events', stack, calls)
    /\ UNCHANGED <<stack, calls, pre, ret>>

\* removeAllListeners(event) called by a listener
removeAllListenersInside(k) ==
    /\ Running
    /\ events' = RemoveAll(events, k)
    /\ did' = Append(did, Note("removeAllListeners", k, None, 0))
    /\ fired' = Collect(fired, events', stack, calls)
    /\ UNCHANGED <<stack, calls, pre, ret>>

\* An emit that puts off an emission asked for by a listener until the
\* emissions in progress are over.
emitInsideDeferred(k, args) ==
    /\ Running
    /\ ~DoError(events, k)
    /\ did' = Append(did, Note("emit", k, None, 0))
    /\ IF events[k] = <<>>
       THEN UNCHANGED stack
       ELSE stack' = <<[type |-> k, args |-> args,
                        listeners |-> ArrayClone(events[k]),
                        i |-> 1, pc |-> "loop", at |-> 0,
                        from |-> Len(calls)]>> \o stack
    /\ UNCHANGED <<events, fired, calls, pre, ret>>

\* emit called by a listener: an emission inside the emission in progress
emitInside(k, args) ==
    /\ Running
    /\ ~DoError(events, k)
    /\ did' = Append(did, Note("emit", k, None, 0))
    /\ IF events[k] = <<>>
       THEN UNCHANGED stack
       ELSE stack' = Append(stack,
                [type |-> k, args |-> args,
                 listeners |-> ArrayClone(events[k]),
                 i |-> 1, pc |-> "loop", at |-> 0, from |-> Len(calls)])
    /\ UNCHANGED <<events, fired, calls, pre, ret>>

\* The host goes on: the notes of the call are dropped with its record.
hostContinuesAfter ==
    /\ hostContinues
    /\ did' = <<>>

NextInside ==
    \/ (\E k \in InsideKeys, cb \in TwoCallbacks :
          TotalEntries < MaxInsideEntries /\ on(k, cb))
          /\ UNCHANGED outside
    \/ (\E k \in InsideKeys, cb \in TwoCallbacks :
          TotalEntries < MaxInsideEntries /\ once(k, cb))
          /\ UNCHANGED outside
    \/ (\E k \in InsideKeys, cb \in TwoCallbacks :
          TotalEntries < MaxInsideEntries /\ prependListener(k, cb))
          /\ UNCHANGED outside
    \/ (\E k \in InsideKeys, cb \in TwoCallbacks :
          TotalEntries < MaxInsideEntries /\ prependOnceListener(k, cb)) /\ UNCHANGED outside
    \/ (\E k \in InsideKeys, cb \in TwoCallbacks : off(k, cb))
          /\ UNCHANGED outside
    \/ (\E k \in InsideKeys : removeAllListeners(k)) /\ UNCHANGED outside
    \/ (\E k \in InsideKeys : emit(k, <<1>>)) /\ UNCHANGED outside
    \/ callListener /\ UNCHANGED outside
    \/ listenerReturns /\ UNCHANGED outside
    \/ listenerThrows /\ UNCHANGED outside
    \/ emitReturns /\ UNCHANGED outside
    \/ hostContinuesAfter /\ UNCHANGED untouched
    \/ (\E k \in InsideKeys, cb \in TwoCallbacks : onInside(k, cb))
          /\ UNCHANGED untouched
    \/ (\E k \in InsideKeys, cb \in TwoCallbacks : onceInside(k, cb))
          /\ UNCHANGED untouched
    \/ (\E k \in InsideKeys, cb \in TwoCallbacks :
          prependListenerInside(k, cb)) /\ UNCHANGED untouched
    \/ (\E k \in InsideKeys, cb \in TwoCallbacks :
          prependOnceListenerInside(k, cb)) /\ UNCHANGED untouched
    \/ (\E k \in InsideKeys, cb \in TwoCallbacks : offInside(k, cb))
          /\ UNCHANGED untouched
    \/ (\E k \in InsideKeys : removeAllListenersInside(k))
          /\ UNCHANGED untouched
    \/ (\E k \in InsideKeys : emitInside(k, <<1>>))
          /\ UNCHANGED untouched

SpecInside == Init /\ [][NextInside]_vars

----------------------------------------------------------------------------
\* An event map that declares newListener and removeListener.  These are the
\* names of the base class's own events: _addListener emits 'newListener'
\* (type, listener) before it adds a listener when the event newListener has
\* listeners, and removeListener emits 'removeListener' (type, listener)
\* after it has removed one when the event removeListener has listeners.
\* The dispatcher passes every call on to the base class, which cannot tell
\* the host's events of these names from its own.
\*
\* Scope of SpecMeta: the host makes every call but emit; it registers once
\* listeners for message only; listener bodies return or throw and do not
\* call the dispatcher.

MetaKeys == {"message", "newListener", "removeListener"}

OnceKeys == {"message"}

\* The frame of an emission the base class makes for itself.
BaseEmission(k, args) ==
    [type |-> k, args |-> args, listeners |-> ArrayClone(events'[k]),
     i |-> 1, pc |-> "loop", at |-> 0]

\* _addListener(target, type, listener, prepend):
\*   if (events.newListener !== undefined)
\*     target.emit('newListener', type, listener.listener ?? listener);
\* and then the insertion.
addListenerMeta(op, k, cb, isOnce, prepend) ==
    /\ ret = Idle
    /\ TotalEntries < MaxEntries
    /\ pre' = events
    /\ IF events["newListener"] = <<>>
       THEN /\ LET e == IF isOnce THEN OnceWrap(cb) ELSE PlainEntry(cb)
               IN  events' = [events EXCEPT ![k] = InsertEntry(@, e, prepend)]
            /\ ret' = Call(op, k, cb, <<>>, "this")
            /\ UNCHANGED stack
       ELSE /\ events' = events
            /\ ret' = Call(op, k, cb, <<>>, "pending")
            /\ stack' = <<BaseEmission("newListener", <<k, cb>>)>>
    /\ UNCHANGED <<fired, calls>>

onMeta(k, cb) == addListenerMeta("on", k, cb, FALSE, FALSE)

onceMeta(k, cb) == addListenerMeta("once", k, cb, TRUE, FALSE)

prependListenerMeta(k, cb) ==
    addListenerMeta("prependListener", k, cb, FALSE, TRUE)

prependOnceListenerMeta(k, cb) ==
    addListenerMeta("prependOnceListener", k, cb, TRUE, TRUE)

\* removeListener(type, listener): the removal, and then
\*   if (events.removeListener !== undefined)
\*     this.emit('removeListener', type, listener);
removeListenerOpMeta(op, k, cb) ==
    /\ ret = Idle
    /\ events' = [events EXCEPT ![k] = RemoveEntry(@, cb)]
    /\ pre' = events
    /\ fired' = Collect(fired, events', stack, calls)
    /\ IF MatchIndex(events[k], cb) = 0 \/ events'["removeListener"] = <<>>
       THEN /\ ret' = Call(op, k, cb, <<>>, "this")
            /\ UNCHANGED stack
       ELSE /\ ret' = Call(op, k, cb, <<>>, "pending")
            /\ stack' = <<BaseEmission("removeListener", <<k, cb>>)>>
    /\ UNCHANGED calls

offMeta(k, cb) == removeListenerOpMeta("off", k, cb)

removeListenerMeta(k, cb) == removeListenerOpMeta("removeListener", k, cb)

\* removeAllListeners(event) for a truthy key.  When the event
\* removeListener has no listeners the event's array is dropped; when it
\* has, the base class removes the event's listeners one by one, last first
\* (for i = listeners.length - 1 down to 0: this.removeListener(type,
\* listeners[i])), and each removal emits 'removeListener'.
removeAllListenersMeta(k) ==
    /\ ret = Idle
    /\ Truthy(k)
    /\ pre' = events
    /\ IF events["removeListener"] = <<>>
       THEN /\ events' = RemoveAll(events, k)
            /\ ret' = Call("removeAllListeners", k, None, <<>>, "this")
       ELSE /\ events' = events
            /\ ret' = Call("removeAllListeners", k, None, <<>>, "pending")
    /\ fired' = Collect(fired, events', stack, calls)
    /\ UNCHANGED <<stack, calls>>

\* One turn of that loop, or its end.
removeNextMeta ==
    /\ ret.op = "removeAllListeners"
    /\ ret.val = "pending"
    /\ stack = <<>>
    /\ LET list == events[ret.type]
       IN  IF list = <<>>
           THEN /\ ret' = [ret EXCEPT !.val = "this"]
                /\ UNCHANGED <<events, stack, fired>>
           ELSE /\ events' = [events EXCEPT
                                ![ret.type] = SpliceOne(list, Len(list))]
                /\ fired' = Collect(fired, events', stack, calls)
                /\ stack' = IF events'["removeListener"] = <<>> THEN stack
                            ELSE <<BaseEmission("removeListener",
                                     <<ret.type, list[Len(list)].listener>>)>>
                /\ UNCHANGED ret
    /\ UNCHANGED <<calls, pre>>

\* The emission the base class made for itself is over: the call goes on.
\* _addListener inserts the listener; removeListener returns;
\* removeAllListeners goes on with its loop.
metaReturns ==
    /\ stack # <<>>
    /\ Top.pc = "loop"
    /\ Top.i > Len(Snapshot(Top))
    /\ ret.op # "emit"
    /\ stack' = <<>>
    /\ IF ret.op \in AddOps
       THEN LET isOnce == ret.op \in {"once", "prependOnceListener"}
                prepend == ret.op \in {"prependListener",
                                       "prependOnceListener"}
                e == IF isOnce THEN OnceWrap(ret.listener)
                     ELSE PlainEntry(ret.listener)
            IN  /\ events' = [events EXCEPT
                                ![ret.type] = InsertEntry(@, e, prepend)]
                /\ ret' = [ret EXCEPT !.val = "this"]
       ELSE /\ events' = events
            /\ ret' = IF ret.op = "removeAllListeners" THEN ret
                      ELSE [ret EXCEPT !.val = "this"]
    /\ UNCHANGED <<fired, calls, pre>>

NextMeta ==
    \/ (\E k \in MetaKeys, cb \in TwoCallbacks : onMeta(k, cb)) /\ UNCHANGED outside
    \/ (\E k \in OnceKeys, cb \in TwoCallbacks : onceMeta(k, cb)) /\ UNCHANGED outside
    \/ (\E k \in MetaKeys, cb \in TwoCallbacks : prependListenerMeta(k, cb)) /\ UNCHANGED outside
    \/ (\E k \in OnceKeys, cb \in TwoCallbacks : prependOnceListenerMeta(k, cb)) /\ UNCHANGED outside
    \/ (\E k \in MetaKeys, cb \in TwoCallbacks : offMeta(k, cb)) /\ UNCHANGED outside
    \/ (\E k \in MetaKeys, cb \in TwoCallbacks : removeListenerMeta(k, cb)) /\ UNCHANGED outside
    \/ (\E k \in MetaKeys : removeAllListenersMeta(k)) /\ UNCHANGED outside
    \/ removeNextMeta /\ UNCHANGED outside
    \/ (\E k \in MetaKeys : listeners(k)) /\ UNCHANGED outside
    \/ callListener /\ UNCHANGED outside
    \/ listenerReturns /\ UNCHANGED outside
    \/ listenerThrows /\ UNCHANGED outside
    \/ metaReturns /\ UNCHANGED outside
    \/ hostContinues /\ UNCHANGED outside

SpecMeta == Init /\ [][NextMeta]_vars

----------------------------------------------------------------------------
\* The emissions that follow the one that used up an event's only listener.
\* spent holds the events whose only entry was a once entry when an emit
\* that returned true began, and for which nothing has been registered
\* since.  Scope of SpecSpent: that of Spec, with two keys and two listeners.

\* The state outside the dispatcher but for spent.
apart == <<self, other, held, logging, did>>

\* once / prependOnceListener was the event's only registration when emit
\* was called.
OnlyOnceEntry(list) == Len(list) = 1 /\ list[1].wrap # 0

hostContinuesSpent ==
    /\ hostContinues
    /\ spent' = IF /\ ret.op = "emit"
                   /\ ret.val = "true"
                   /\ OnlyOnceEntry(pre[ret.type])
                THEN spent \cup {ret.type}
                ELSE IF ret.op \in AddOps THEN spent \ {ret.type}
                ELSE spent

NextSpent ==
    \/ (\E k \in TwoKeys, cb \in TwoCallbacks : on(k, cb)) /\ UNCHANGED outside
    \/ (\E k \in TwoKeys, cb \in TwoCallbacks : once(k, cb)) /\ UNCHANGED outside
    \/ (\E k \in TwoKeys, cb \in TwoCallbacks : prependListener(k, cb)) /\ UNCHANGED outside
    \/ (\E k \in TwoKeys, cb \in TwoCallbacks : prependOnceListener(k, cb)) /\ UNCHANGED outside
    \/ (\E k \in TwoKeys, cb \in TwoCallbacks : off(k, cb)) /\ UNCHANGED outside
    \/ (\E k \in TwoKeys : removeAllListeners(k)) /\ UNCHANGED outside
    \/ (\E k \in TwoKeys : listeners(k)) /\ UNCHANGED outside
    \/ (\E k \in TwoKeys, args \in ArgLists : emit(k, args)) /\ UNCHANGED outside
    \/ callListener /\ UNCHANGED outside
    \/ listenerReturns /\ UNCHANGED outside
    \/ listenerThrows /\ UNCHANGED outside
    \/ emitReturns /\ UNCHANGED outside
    \/ hostContinuesSpent /\ UNCHANGED apart

SpecSpent == Init /\ [][NextSpent]_vars

----------------------------------------------------------------------------
\* Logger (src/src/logger/index.ts).

\* Namespaces a host passes, with what String.prototype.toUpperCase makes
\* of each.
ToUpperCase ==
    [n \in {"", "api", "Db", "APP"} |->
        CASE n = "api" -> "API"
          [] n = "Db" -> "DB"
          [] OTHER -> n]

Namespaces == DOMAIN ToUpperCase

\* Lists of environment names a host passes as options.env.
EnvLists ==
    {<<>>, <<"development">>, <<"production">>,
     <<"development", "production">>}

\* LoggerOptions: both fields optional; a record without the field when the
\* option is not given (new Logger() and new Logger({}) give the empty one).
LoggerOptions ==
    {[f \in {} |-> None]}
    \cup {[namespace |-> n] : n \in Namespaces}
    \cup {[env |-> e] : e \in EnvLists}
    \cup {[namespace |-> n, env |-> e] : n \in Namespaces, e \in EnvLists}

\* Values of process.env.NODE_ENV: unset, or a string (the empty one too).
NodeEnvs == {None, "", "development", "production", "test"}

Messages == {"started", "failed"}

\* Colors
RED == "ESC[31m"

YELLOW == "ESC[33m"

RESET == "ESC[0m"

\* The call of the logger at rest; before is the number of console calls
\* the logger's previous call made, -1 when it has made none.
NoCall(before) ==
    [method |-> "idle", message |-> None, args |-> <<>>, before |-> before]

\* Console calls made by the logger's last call (-1: no call yet).
Before == IF lcall.method = "idle" THEN lcall.before ELSE Len(console)

\* A constructor that takes the namespace as it is written.
newLoggerKeepsCase(options) ==
    /\ code' = IF "namespace" \in DOMAIN options /\ Truthy(options.namespace)
               THEN options.namespace
               ELSE "APP"
    /\ env' = IF "env" \in DOMAIN options THEN options.env ELSE <<>>
    /\ opts' = options
    /\ console' = <<>>
    /\ lcall' = NoCall(-1)
    /\ UNCHANGED <<nodeEnv, dispatcher, self, other, held, did, spent>>

\* constructor(options?)
newLogger(options) ==
    /\ code' = IF "namespace" \in DOMAIN options /\ Truthy(options.namespace)
               THEN ToUpperCase[options.namespace]
               ELSE "APP"
    /\ env' = IF "env" \in DOMAIN options THEN options.env ELSE <<>>
    /\ opts' = options
    /\ console' = <<>>
    /\ lcall' = NoCall(-1)
    /\ UNCHANGED <<nodeEnv, dispatcher, self, other, held, did, spent>>

\* process.env.NODE_ENV = v, or delete process.env.NODE_ENV
setNodeEnv(v) ==
    /\ v # nodeEnv
    /\ nodeEnv' = v
    /\ console' = <<>>
    /\ lcall' = NoCall(Before)
    /\ UNCHANGED <<code, env, opts, dispatcher, self, other, held, did, spent>>

\* An environment variable read as it is, unset included.
CurrentEnvRaw(v) == v

\* process.env.NODE_ENV || "development"
CurrentEnv(v) == IF v = None \/ ~Truthy(v) THEN "development" ELSE v

\* shouldLog()
ShouldLog ==
    IF Len(env) = 0 THEN TRUE
    ELSE \E j \in 1..Len(env) : env[j] = CurrentEnv(nodeEnv)

\* `[${this.code}]: ${message}`, as the pieces it is put together of
Prefixed(message) == <<"[", code, "]: ", message>>

\* One call of a method of the logger: the console calls it makes.
LoggerCall(method, message, args, out) ==
    /\ lcall' = [method |-> method, message |-> message, args |-> args,
                 before |-> Before]
    /\ console' = IF ShouldLog THEN out ELSE <<>>
    /\ UNCHANGED <<code, env, nodeEnv, opts, dispatcher, self, other, held,
                   did, spent>>

log(message, args) ==
    LoggerCall("log", message, args,
        <<[method |-> "log", text |-> Prefixed(message), args |-> args]>>)

error(message, args) ==
    LoggerCall("error", message, args,
        <<[method |-> "error",
           text |-> <<RED>> \o Prefixed(message) \o <<RESET>>,
           args |-> args]>>)

warn(message, args) ==
    LoggerCall("warn", message, args,
        <<[method |-> "warn",
           text |-> <<YELLOW>> \o Prefixed(message) \o <<RESET>>,
           args |-> args]>>)

\* A debug that writes with console.log.
debugViaLog(message, args) ==
    LoggerCall("debug", message, args,
        <<[method |-> "log", text |-> Prefixed(message), args |-> args]>>)

debug(message, args) ==
    LoggerCall("debug", message, args,
        <<[method |-> "debug", text |-> Prefixed(message), args |-> args]>>)

NextLogger ==
    \/ \E options \in LoggerOptions : newLogger(options)
    \/ \E v \in NodeEnvs : setNodeEnv(v)
    \/ \E message \in Messages, args \in LongArgLists : log(message, args)
    \/ \E message \in Messages, args \in LongArgLists : error(message, args)
    \/ \E message \in Messages, args \in LongArgLists : warn(message, args)
    \/ \E message \in Messages, args \in LongArgLists : debug(message, args)

SpecLogger == Init /\ [][NextLogger]_vars

----------------------------------------------------------------------------
\* Vocabulary of the properties.

\* The host's call of op has come to its end (returned or thrown).
Ended(op) == ret.op = op /\ stack = <<>> /\ ret.val # "pending"

\* The listeners invoked so far by the host's call, in order of invocation.
Invoked == [j \in 1..Len(calls) |-> calls[j].listener]

\* How often cb occurs in a sequence of listeners.
Occurrences(seq, cb) == Cardinality({j \in 1..Len(seq) : seq[j] = cb})

\* The entries of a list that are not once wrappers, in order.
PlainOnly(list) == SelectSeq(list, LAMBDA e : e.wrap = 0)

\* list without the entry at p
Without(list, p) == SubSeq(list, 1, p - 1) \o SubSeq(list, p + 1, Len(list))

----------------------------------------------------------------------------
\* C1: on(event, cb) puts cb after every entry the event already has, so a
\* run of on calls leaves the callbacks in the order registered, and
\* listeners(event) returns the callbacks in exactly the registry's order.
OnKeepsRegistrationOrder ==
    /\ ret.op = "on" =>
         /\ Listeners(ret.type) = Append(Unwrap(pre[ret.type]), ret.listener)
         /\ \A k \in EventKeys \ {ret.type} : events[k] = pre[k]
    /\ ret.op = "listeners" =>
         /\ ret.list = Unwrap(pre[ret.type])
         /\ events = pre

OnThreeInOrder ==
    /\ ret.op = "on"
    /\ ret.listener = "C"
    /\ pre["message"] = <<PlainEntry("A"), PlainEntry("B")>>
    /\ Listeners("message") = <<"A", "B", "C">>

\* C2: an emission invokes the listeners one after another in the order of
\* the event's sequence as it stood when emit was called; when emit returns
\* true all of them have been invoked.
EmitInvokesInSequenceOrder ==
    ret.op = "emit" =>
        LET want == Unwrap(pre[ret.type])
        IN  /\ Len(Invoked) <= Len(want)
            /\ \A j \in 1..Len(Invoked) : Invoked[j] = want[j]
            /\ \A j \in 1..(Len(calls) - 1) : calls[j].out = "returned"
            /\ ret.val = "true" =>
                 /\ Invoked = want
                 /\ \A j \in 1..Len(calls) : calls[j].out = "returned"

EmitPrependedFirst ==
    /\ Ended("emit")
    /\ ret.val = "true"
    /\ pre["message"] = <<PlainEntry("C"), PlainEntry("A"), PlainEntry("B")>>
    /\ Invoked = <<"C", "A", "B">>

\* C3: a once entry is invoked at most once, by the first emission of its
\* event and with that emission's arguments; it has left the registry
\* before it is invoked, so that no later emission can find it, and it is
\* absent from the event's sequence when the emission has returned.
OnceInvokedExactlyOnce ==
    /\ \A j \in 1..Len(calls) :
         calls[j].wrap # 0 =>
           /\ \A k \in EventKeys : calls[j].wrap \notin WrapsIn(events[k])
           /\ \A h \in 1..Len(calls) : calls[h].wrap = calls[j].wrap => h = j
           /\ calls[j].args = ret.args
    /\ (ret.op = "emit" /\ ret.val = "true") =>
         /\ \A w \in WrapsIn(pre[ret.type]) :
              \E j \in 1..Len(calls) : calls[j].wrap = w
         /\ WrapsIn(events[ret.type]) = {}
         /\ events[ret.type] = PlainOnly(pre[ret.type])

OnceFiredAndGone ==
    /\ Ended("emit")
    /\ ret.val = "true"
    /\ ret.args = <<1>>
    /\ Len(pre["message"]) = 2
    /\ pre["message"][1] = PlainEntry("A")
    /\ pre["message"][2].wrap # 0
    /\ pre["message"][2].listener = "A"
    /\ events["message"] = <<PlainEntry("A")>>
    /\ Len(calls) = 2
    /\ calls[2].wrap = pre["message"][2].wrap
    /\ calls[2].args = <<1>>

\* C4 (as stated): for every declared key, error included, emit returns
\* true iff the event had a listener when emit was called; with none it
\* returns false, invokes nothing and does not throw.
EmitReturnsTrueIffListeners ==
    Ended("emit") =>
        /\ pre[ret.type] = <<>> => (ret.val = "false" /\ calls = <<>>)
        /\ ret.val = "true" => pre[ret.type] # <<>>
        /\ ret.val = "false" => pre[ret.type] = <<>>

\* C4 (amended): the same for every key but error; emit("error") with no
\* listener throws the unhandled error instead of returning false, having
\* invoked nothing.
EmitReturnsTrueIffListenersButError ==
    /\ ret.op = "emit" /\ ret.val = "pending" => pre[ret.type] # <<>>
    /\ Ended("emit") =>
        /\ (pre[ret.type] = <<>> /\ ret.type # "error") =>
              (ret.val = "false" /\ calls = <<>>)
        /\ (pre[ret.type] = <<>> /\ ret.type = "error") =>
              (ret.val = "throw" /\ ret.err = "unhandled" /\ calls = <<>>)
        /\ ret.val = "true" => pre[ret.type] # <<>>
        /\ ret.val = "false" => pre[ret.type] = <<>>
        /\ (ret.val = "throw" /\ ret.err = "unhandled") =>
              (ret.type = "error" /\ pre["error"] = <<>>)

EmitErrorUnhandled ==
    /\ Ended("emit")
    /\ ret.type = "error"
    /\ pre["error"] = <<>>
    /\ pre["message"] # <<>>
    /\ ret.val = "throw"
    /\ events = pre

\* C5 (as stated): off(event, cb) removes the FIRST entry whose callback is
\* cb and leaves every other entry and the order unchanged.
OffRemovesFirstMatch ==
    ret.op = "off" =>
        LET list == pre[ret.type]
            hits == {j \in 1..Len(list) : list[j].listener = ret.listener}
        IN  /\ \A k \in EventKeys \ {ret.type} : events[k] = pre[k]
            /\ hits = {} => events[ret.type] = list
            /\ hits # {} =>
                 events[ret.type] =
                   Without(list, CHOOSE j \in hits : \A h \in hits : j <= h)

\* C5 (amended): off(event, cb) removes exactly one entry, the LAST entry
\* of the event's sequence whose callback is cb, and leaves every other
\* entry and the order unchanged.
OffRemovesLastMatch ==
    ret.op = "off" =>
        LET list == pre[ret.type]
            hits == {j \in 1..Len(list) : list[j].listener = ret.listener}
        IN  /\ ret.val = "this"
            /\ \A k \in EventKeys \ {ret.type} : events[k] = pre[k]
            /\ hits = {} => events[ret.type] = list
            /\ hits # {} =>
                 \E p \in hits :
                    /\ \A h \in hits : h <= p
                    /\ events[ret.type] = Without(list, p)

OffOneOfTwo ==
    /\ ret.op = "off"
    /\ ret.listener = "A"
    /\ pre["message"] = <<[listener |-> "A", wrap |-> 1], PlainEntry("B"),
                          PlainEntry("A")>>
    /\ events["message"] = <<[listener |-> "A", wrap |-> 1], PlainEntry("B")>>

\* C6: on never deduplicates and never fails: each call adds one more entry
\* for cb, whether or not cb is registered already, and an emission invokes
\* every callback as often as it is registered.
OnNeverDeduplicates ==
    /\ ret.op = "on" =>
         /\ ret.val = "this"
         /\ Len(events[ret.type]) = Len(pre[ret.type]) + 1
         /\ Occurrences(Listeners(ret.type), ret.listener)
              = Occurrences(Unwrap(pre[ret.type]), ret.listener) + 1
    /\ (ret.op = "emit" /\ ret.val = "true") =>
         \A cb \in Callbacks :
            Occurrences(Invoked, cb) = Occurrences(Unwrap(pre[ret.type]), cb)

SameListenerInvokedTwice ==
    /\ Ended("emit")
    /\ ret.val = "true"
    /\ pre["message"] = <<PlainEntry("A"), PlainEntry("A")>>
    /\ Invoked = <<"A", "A">>
    /\ events["message"] = pre["message"]

\* C7: when a listener throws during emit, it is the last listener invoked
\* by that emission (the ones after it are not invoked), the ones before it
\* have each been invoked once and have returned, and emit ends by throwing
\* that listener's error, returning no value.
ListenerErrorStopsEmission ==
    /\ \A j \in 1..Len(calls) :
         calls[j].out = "threw" =>
           /\ j = Len(calls)
           /\ stack = <<>>
           /\ ret.val = "throw"
           /\ ret.err = calls[j].listener
           /\ j <= Len(pre[ret.type])
           /\ \A h \in 1..j : calls[h].listener = pre[ret.type][h].listener
           /\ \A h \in 1..(j - 1) : calls[h].out = "returned"
    /\ (Ended("emit") /\ ret.val = "throw" /\ ret.err # "unhandled") =>
         (calls # <<>> /\ calls[Len(calls)].out = "threw")

SecondOfThreeThrows ==
    /\ Ended("emit")
    /\ ret.val = "throw"
    /\ pre["message"] = <<PlainEntry("A"), PlainEntry("B"), PlainEntry("C")>>
    /\ Invoked = <<"A", "B">>
    /\ ret.err = "B"

\* C8: removeAllListeners(event) empties the sequence of that event only,
\* for every key including the empty string, and removeAllListeners()
\* empties every sequence.
RemoveAllClearsOnlyNamedEvent ==
    /\ ret.op = "removeAllListeners" =>
         events = [pre EXCEPT ![ret.type] = <<>>]
    /\ ret.op = "removeAllListeners()" =>
         \A k \in EventKeys : events[k] = <<>>

\* C9: prependListener(event, cb) puts the new entry at index 0, before the
\* entries the event has, which keep their order; listeners(event) then
\* starts with cb, and an emission's first invocation is the listener at the
\* front of the sequence.
PrependPlacesFirst ==
    /\ ret.op = "prependListener" =>
         /\ ret.val = "this"
         /\ events = [pre EXCEPT ![ret.type] = <<PlainEntry(ret.listener)>> \o @]
         /\ Head(Listeners(ret.type)) = ret.listener
    /\ (ret.op = "emit" /\ calls # <<>>) =>
         calls[1].listener = Head(pre[ret.type]).listener

PrependedBeforeTwo ==
    /\ ret.op = "prependListener"
    /\ pre["message"] = <<PlainEntry("A"), PlainEntry("B")>>
    /\ Listeners("message") = <<"C", "A", "B">>

\* C10: prependOnceListener(event, cb) puts a new once entry for cb before
\* the entries the event has; the next emission invokes it first, removes it
\* and goes on with the other listeners in their order, which is the order
\* they are left in for the emissions after it.
PrependOnceFirstAndOnce ==
    /\ ret.op = "prependOnceListener" =>
         /\ ret.val = "this"
         /\ \E w \in WrapIds \ UNION {WrapsIn(pre[k]) : k \in EventKeys} :
              events = [pre EXCEPT ![ret.type] =
                          <<[listener |-> ret.listener, wrap |-> w]>> \o @]
    /\ (ret.op = "emit" /\ ret.val = "true"
          /\ Head(pre[ret.type]).wrap # 0) =>
         /\ calls[1].wrap = Head(pre[ret.type]).wrap
         /\ calls[1].listener = Head(pre[ret.type]).listener
         /\ Tail(Invoked) = Unwrap(Tail(pre[ret.type]))
         /\ events[ret.type] = PlainOnly(Tail(pre[ret.type]))

PrependedOnceThenOthers ==
    /\ Ended("emit")
    /\ ret.val = "true"
    /\ pre["message"] = <<[listener |-> "C", wrap |-> 1], PlainEntry("A"),
                          PlainEntry("B")>>
    /\ Invoked = <<"C", "A", "B">>
    /\ events["message"] = <<PlainEntry("A"), PlainEntry("B")>>

\* C12: an emission of X invokes only entries registered under X and
\* leaves the sequence of every other event as it was; listeners(X) holds
\* only callbacks registered under X.
EventsAreIsolated ==
    /\ ret.op = "emit" =>
         /\ \A j \in 1..Len(calls) :
              \E h \in 1..Len(pre[ret.type]) :
                 /\ pre[ret.type][h].listener = calls[j].listener
                 /\ pre[ret.type][h].wrap = calls[j].wrap
         /\ \A k \in EventKeys \ {ret.type} : events[k] = pre[k]
    /\ ret.op = "listeners" =>
         \A j \in 1..Len(ret.list) :
            \E h \in 1..Len(pre[ret.type]) :
               pre[ret.type][h].listener = ret.list[j]

EmitLeavesOtherEventAlone ==
    /\ Ended("emit")
    /\ ret.type = "message"
    /\ ret.val = "true"
    /\ pre["message"] = <<PlainEntry("A")>>
    /\ pre["error"] = <<PlainEntry("B")>>
    /\ pre[""] = <<[listener |-> "C", wrap |-> 1]>>
    /\ Invoked = <<"A">>
    /\ events = pre

\* The registry left by removing cb from event k: the last entry of k whose
\* callback is cb is gone, everything else is as it was.
AfterRemoval(reg, k, cb) ==
    LET hits == {j \in 1..Len(reg[k]) : reg[k][j].listener = cb}
    IN  IF hits = {} THEN reg
        ELSE [reg EXCEPT ![k] =
                Without(@, CHOOSE p \in hits : \A h \in hits : h <= p)]

\* C13: off and removeListener are one operation: from the same registry
\* and with the same arguments both leave the same registry and both return
\* the dispatcher.
OffIsRemoveListener ==
    ret.op \in {"off", "removeListener"} =>
        /\ events = AfterRemoval(pre, ret.type, ret.listener)
        /\ ret.val = "this"
        /\ calls = <<>>
        /\ stack = <<>>

OffRemovedOneOfTwoEntries ==
    /\ ret.op = "off"
    /\ ret.listener = "B"
    /\ pre["error"] = <<PlainEntry("B"), PlainEntry("A"), PlainEntry("B")>>
    /\ events["error"] = <<PlainEntry("B"), PlainEntry("A")>>

\* C14: removing a listener the event does not have, or all listeners of an
\* event that has none, raises nothing, leaves the whole registry as it was
\* and returns the dispatcher.
NoOpRemovalIsSilent ==
    /\ (/\ ret.op \in {"off", "removeListener"}
        /\ \A j \in 1..Len(pre[ret.type]) :
              pre[ret.type][j].listener # ret.listener) =>
          (events = pre /\ ret.val = "this")
    /\ (ret.op = "removeAllListeners" /\ pre[ret.type] = <<>>) =>
          (events = pre /\ ret.val = "this")

\* C16: every mutating operation returns the dispatcher it was called on,
\* whatever the registry holds, and does nothing else than its own effect,
\* so that a chain of calls is the same calls made one after another.
Mutators ==
    {"on", "once", "off", "removeListener", "removeAllListeners",
     "removeAllListeners()", "prependListener", "prependOnceListener"}

MutatorsReturnDispatcher ==
    ret.op \in Mutators =>
        /\ ret.val = "this"
        /\ ret.err = None
        /\ stack = <<>>
        /\ calls = <<>>

ChainOfThree ==
    /\ ret.op = "prependListener"
    /\ ret.val = "this"
    /\ ret.type = ""
    /\ pre["message"] = <<PlainEntry("A")>>
    /\ pre["error"] = <<[listener |-> "B", wrap |-> 1]>>
    /\ events[""] = <<PlainEntry("C")>>

\* C17: every listener an emission invokes is applied to exactly the
\* argument list emit was called with, in the same order, the empty list
\* included.
EmitPassesArguments ==
    ret.op = "emit" =>
        \A j \in 1..Len(calls) :
           /\ calls[j].args = ret.args
           /\ Len(calls[j].args) = Len(ret.args)

TwoArgumentsToTwoListeners ==
    /\ Ended("emit")
    /\ ret.val = "true"
    /\ ret.args = <<2, 1>>
    /\ Len(calls) = 2
    /\ calls[1].args = <<2, 1>>
    /\ calls[2].args = <<2, 1>>
    /\ calls[1].listener # calls[2].listener

\* C18: off(event, cb) removes a once entry of cb as it removes any other
\* entry; the wrapper is then in no sequence, so no emission finds it, cb is
\* no longer in listeners(event) unless registered again, and an emission
\* only ever invokes entries that were in the sequence when it began.
OffRemovesOnceEntry ==
    /\ ret.op = "off" =>
         LET list == pre[ret.type]
             hits == {j \in 1..Len(list) : list[j].listener = ret.listener}
         IN  \A p \in hits :
                ((\A h \in hits : h <= p) /\ list[p].wrap # 0) =>
                   /\ \A k \in EventKeys :
                         list[p].wrap \notin WrapsIn(events[k])
                   /\ list[p].wrap \notin fired
                   /\ Occurrences(Listeners(ret.type), ret.listener)
                        = Cardinality(hits) - 1
    /\ ret.op = "emit" =>
         /\ \A j \in 1..Len(calls) :
               /\ j <= Len(pre[ret.type])
               /\ calls[j].wrap = pre[ret.type][j].wrap
         /\ (pre[ret.type] = <<>> /\ ret.type # "error") =>
               (ret.val = "false" /\ calls = <<>>)

OnceEntryRemovedByOff ==
    /\ ret.op = "off"
    /\ ret.type = "message"
    /\ ret.listener = "A"
    /\ pre["message"] = <<[listener |-> "A", wrap |-> 1]>>
    /\ events["message"] = <<>>
    /\ Listeners("message") = <<>>

\* C11: two dispatchers share no state: whatever the host calls on one,
\* and whatever that call's listeners do, the registry of the other stays
\* as it is, so that the host, turning to the other, finds it as it left
\* it; and an emission on one invokes only entries of that one's registry.
InstancesShareNothing ==
    /\ [][IF self' = self
          THEN other' = other
          ELSE events' = other /\ other' = events]_vars
    /\ [](ret.op = "emit" =>
            \A j \in 1..Len(calls) :
               \E h \in 1..Len(pre[ret.type]) :
                  pre[ret.type][h].listener = calls[j].listener)

EmitOnOneOfTwoInstances ==
    /\ self = 1
    /\ Ended("emit")
    /\ ret.type = "message"
    /\ pre["message"] = <<PlainEntry("A")>>
    /\ other["message"] = <<PlainEntry("B")>>
    /\ Invoked = <<"A">>

\* C15: listeners(event) returns a new sequence holding, in the registry's
\* current order, the callback of every entry of the event (of a once entry
\* the callback given to once), empty when the event has none; changing
\* the returned sequence leaves the registry as it is, and changing the
\* registry leaves a sequence returned earlier as it is.
ListenersReturnsSnapshot ==
    /\ [](ret.op = "listeners" =>
            /\ Len(ret.list) = Len(pre[ret.type])
            /\ \A j \in 1..Len(ret.list) :
                  ret.list[j] = pre[ret.type][j].listener
            /\ HeldItems = ret.list
            /\ events = pre)
    /\ [][(ret' = ret /\ HeldItems' # HeldItems) => events' = events]_vars
    /\ [][(ret'.op # "listeners" /\ events' # events) =>
             HeldItems' = HeldItems]_vars

SnapshotOutlivesRegistryChange ==
    /\ ret.op = "off"
    /\ pre["message"] = <<[listener |-> "A", wrap |-> 1], PlainEntry("B")>>
    /\ events["message"] = <<[listener |-> "A", wrap |-> 1]>>
    /\ HeldItems = <<"A", "B", "B">>

\* C19 (as stated): a call of log, warn, error or debug writes to the
\* console exactly when the logger's list of environments is empty or
\* holds the current NODE_ENV, an unset NODE_ENV counting as "development".
LoggerGatedByNodeEnv ==
    lcall.method # "idle" =>
        (console # <<>> <=>
            \/ env = <<>>
            \/ \E j \in 1..Len(env) :
                  env[j] = IF nodeEnv = None THEN "development" ELSE nodeEnv)

\* C19 (amended): a call of log, warn, error or debug writes to the console
\* exactly when the logger's list of environments is empty or holds the
\* current NODE_ENV, an unset or empty NODE_ENV counting as "development";
\* NODE_ENV is read at each call.
LoggerGatedByNodeEnvOrDefault ==
    lcall.method # "idle" =>
        (console # <<>> <=>
            \/ env = <<>>
            \/ \E j \in 1..Len(env) :
                  env[j] = IF nodeEnv \in {None, ""} THEN "development"
                           ELSE nodeEnv)

SilentAfterNodeEnvChanged ==
    /\ lcall.method = "warn"
    /\ lcall.before = 1
    /\ env = <<"development">>
    /\ nodeEnv = "production"
    /\ console = <<>>

\* C20: a call of log, error, warn or debug that writes makes exactly one
\* console call, to the console method of its own name, handing over the
\* trailing arguments as given; a call that does not write makes no console
\* call.
OneConsoleCallPerLoggerCall ==
    lcall.method # "idle" =>
        /\ Len(console) = IF ShouldLog THEN 1 ELSE 0
        /\ \A j \in 1..Len(console) :
              /\ console[j].method = lcall.method
              /\ console[j].args = lcall.args

DebugWithTwoArguments ==
    /\ lcall.method = "debug"
    /\ lcall.args = <<2, 1>>
    /\ Len(console) = 1
    /\ console[1].method = "debug"
    /\ console[1].args = <<2, 1>>

\* The text a call of the logger writes, given the code of its prefix.
ExpectedText(prefixCode) ==
    LET body == <<"[", prefixCode, "]: ", lcall.message>>
    IN  CASE lcall.method = "error" -> <<RED>> \o body \o <<RESET>>
          [] lcall.method = "warn" -> <<YELLOW>> \o body \o <<RESET>>
          [] OTHER -> body

\* C21 (as stated): the text written is "[CODE]: " and the message, CODE
\* being the upper-cased namespace option, "APP" when the option is absent;
\* error puts it between the red code and the reset, warn between the yellow
\* code and the reset, log and debug add nothing.
LoggerPrefixFromNamespace ==
    (lcall.method # "idle" /\ console # <<>>) =>
        console[1].text =
            ExpectedText(IF "namespace" \in DOMAIN opts
                         THEN ToUpperCase[opts.namespace] ELSE "APP")

\* C21 (amended): as above, CODE being "APP" when the namespace option is
\* absent or the empty string.
LoggerPrefixFromNamespaceOrDefault ==
    (lcall.method # "idle" /\ console # <<>>) =>
        console[1].text =
            ExpectedText(IF "namespace" \in DOMAIN opts
                            /\ opts.namespace # ""
                         THEN ToUpperCase[opts.namespace] ELSE "APP")

ErrorInRedWithUpperCasedCode ==
    /\ lcall.method = "error"
    /\ opts = [namespace |-> "api"]
    /\ console =
         <<[method |-> "error",
            text |-> <<"ESC[31m", "[", "API", "]: ", "failed", "ESC[0m">>,
            args |-> <<1>>]>>

\* C24: an emission whose listeners leave the registry alone invokes every
\* entry its event had when it began, once entries and regular ones in
\* whatever order, each exactly once and in sequence order: the removal of
\* a once entry makes the loop skip nothing.
EmitSkipsNoEntry ==
    (Ended("emit") /\ ret.val = "true") =>
        /\ Len(calls) = Len(pre[ret.type])
        /\ \A j \in 1..Len(calls) :
              /\ calls[j].listener = pre[ret.type][j].listener
              /\ calls[j].wrap = pre[ret.type][j].wrap
              /\ calls[j].out = "returned"

OnceRegularOnceAllInvoked ==
    /\ Ended("emit")
    /\ ret.val = "true"
    /\ pre["message"] = <<[listener |-> "A", wrap |-> 1], PlainEntry("B"),
                          [listener |-> "C", wrap |-> 2]>>
    /\ Invoked = <<"A", "B", "C">>
    /\ events["message"] = <<PlainEntry("B")>>

\* C27: nothing is rolled back when a listener throws: the once entries up
\* to and including the thrower have left the event's sequence, the regular
\* entries up to it and every entry after it, once or regular, are still
\* there in their order, not invoked, for the next emission to find.
ThrowRollsNothingBack ==
    (Ended("emit") /\ ret.val = "throw" /\ ret.err # "unhandled") =>
        LET n == Len(calls)
            seq == pre[ret.type]
        IN  /\ n >= 1
            /\ n <= Len(seq)
            /\ events[ret.type] =
                 PlainOnly(SubSeq(seq, 1, n)) \o SubSeq(seq, n + 1, Len(seq))
            /\ \A j \in 1..n :
                  calls[j].wrap # 0 =>
                     /\ calls[j].wrap = seq[j].wrap
                     /\ calls[j].wrap \notin WrapsIn(events[ret.type])
            /\ \A p \in (n + 1)..Len(seq) :
                  \A j \in 1..n :
                     seq[p].wrap # 0 => calls[j].wrap # seq[p].wrap

OnceThrowerGoneLaterOnceKept ==
    /\ Ended("emit")
    /\ ret.val = "throw"
    /\ ret.err = "B"
    /\ pre["message"] = <<PlainEntry("A"), [listener |-> "B", wrap |-> 1],
                          [listener |-> "C", wrap |-> 2]>>
    /\ events["message"] = <<PlainEntry("A"), [listener |-> "C", wrap |-> 2]>>
    /\ Invoked = <<"A", "B">>

\* C30: an emission whose listeners leave the registry alone changes the
\* registry in one way only: the once entries of its event that it has
\* invoked are gone.  Every regular entry of the event and every entry of
\* every other event keeps its place, so that each further emission finds
\* and invokes the regular entries again.
EmitOnlyConsumesOnceEntries ==
    ret.op = "emit" =>
        LET gone == {calls[j].wrap : j \in 1..Len(calls)} \ {0}
        IN  /\ events[ret.type] =
                 SelectSeq(pre[ret.type], LAMBDA e : e.wrap \notin gone)
            /\ gone \subseteq WrapsIn(pre[ret.type])
            /\ PlainOnly(events[ret.type]) = PlainOnly(pre[ret.type])
            /\ \A k \in EventKeys \ {ret.type} : events[k] = pre[k]
            /\ (ret.val = "true" =>
                  \A cb \in Callbacks :
                     Occurrences(Invoked, cb)
                       = Occurrences(Unwrap(pre[ret.type]), cb))

RegularEntriesKeepTheirPlace ==
    /\ Ended("emit")
    /\ ret.val = "true"
    /\ pre["message"] = <<PlainEntry("A"), [listener |-> "B", wrap |-> 1],
                          PlainEntry("A")>>
    /\ events["message"] = <<PlainEntry("A"), PlainEntry("A")>>
    /\ pre["error"] = <<>>
    /\ Invoked = <<"A", "B", "A">>

----------------------------------------------------------------------------
\* Vocabulary of the properties of listeners that call the dispatcher.

\* The entry invoked by the j-th invocation.
Entry(j) == [listener |-> calls[j].listener, wrap |-> calls[j].wrap]

\* The invocations made so far by the emission in progress at depth d.
Mine(d) ==
    {j \in 1..Len(calls) :
        /\ calls[j].depth = d
        /\ j > (IF d = 1 THEN 0 ELSE stack[d].from)}

\* The emission an invocation belongs to: 0 for the host's emission, else the
\* note of the emit that began it.
EmissionOf(j) ==
    IF calls[j].depth = 1 THEN 0
    ELSE LET began == {x \in 1..Len(did) :
                          /\ did[x].op = "emit"
                          /\ did[x].depth = calls[j].depth - 1
                          /\ did[x].n < j}
         IN  CHOOSE x \in began : \A y \in began : y <= x

\* The first n elements of a list (all of them when it has fewer).
FirstOf(list, n) ==
    [p \in 1..(IF n < Len(list) THEN n ELSE Len(list)) |-> list[p]]

\* The invocations listed by a set of indices, as entries in order.
EntriesOf(js) ==
    LET idx == SelectSeq([j \in 1..Len(calls) |-> j], LAMBDA j : j \in js)
    IN  [x \in 1..Len(idx) |-> Entry(idx[x])]

\* The entries of list that are due to the invocations js: all but the once
\* entries another emission has invoked.
Due(list, js) ==
    SelectSeq(list,
        LAMBDA e : ~(/\ e.wrap # 0
                     /\ \E j \in (1..Len(calls)) \ js : calls[j].wrap = e.wrap))

\* No note after the a-th removes a listener.
NoRemovalAfter(a) ==
    \A x \in (a + 1)..Len(did) : did[x].op \notin {"off", "removeAllListeners"}

\* C22: a once entry has left its event's sequence when its callback
\* runs: while the callback of a once entry is running, whatever emission
\* invoked it, the entry is in no sequence.  An entry the callback registers
\* for itself during its own invocation is a new one: it stays registered
\* when the emission is over (as long as nobody removes it) until an
\* emission begun later invokes it, and an emission invokes every entry
\* its event has when it begins.
OnceEntryGoneWhileItRuns ==
    /\ \A d \in 1..Len(stack) :
         stack[d].pc = "body" =>
            LET w == calls[stack[d].at].wrap
            IN  w # 0 => \A k \in EventKeys : w \notin WrapsIn(events[k])
    /\ \A a \in 1..Len(did) :
         (/\ did[a].op \in AddOps
          /\ calls[did[a].by].wrap # 0
          /\ calls[did[a].by].listener = did[a].listener
          /\ NoRemovalAfter(a)) =>
            IF did[a].wrap = 0
            THEN \E p \in 1..Len(events[did[a].type]) :
                    events[did[a].type][p] = PlainEntry(did[a].listener)
            ELSE \/ did[a].wrap \in WrapsIn(events[did[a].type])
                 \/ \E j \in 1..Len(calls) :
                       /\ calls[j].wrap = did[a].wrap
                       /\ j > did[a].n
                       /\ EmissionOf(j) # EmissionOf(did[a].by)
    /\ (Ended("emit") /\ ret.val = "true") =>
         EntriesOf({j \in 1..Len(calls) : calls[j].depth = 1})
           = Due(pre[ret.type], {j \in 1..Len(calls) : calls[j].depth = 1})

OnceListenerRegisteredItselfAgain ==
    /\ Ended("emit")
    /\ ret.val = "true"
    /\ pre["message"] = <<[listener |-> "A", wrap |-> 1]>>
    /\ Invoked = <<"A">>
    /\ Len(did) = 1
    /\ did[1].op = "once"
    /\ did[1].listener = "A"
    /\ did[1].by = 1
    /\ Len(events["message"]) = 1
    /\ events["message"][1].listener = "A"
    /\ events["message"][1].wrap = did[1].wrap
    /\ did[1].wrap # 1

\* C23: a once entry is invoked at most once, however the emissions of its
\* event are nested: when listeners call emit for the event during an
\* emission, every once entry the event had when the host's emission began
\* is invoked exactly once, by the host's emission or by one inside it.
OnceExactlyOnceWhenNested ==
    /\ \A j, h \in 1..Len(calls) :
         (calls[j].wrap # 0 /\ calls[j].wrap = calls[h].wrap) => j = h
    /\ (Ended("emit") /\ ret.val = "true") =>
         \A w \in WrapsIn(pre[ret.type]) :
            Cardinality({j \in 1..Len(calls) : calls[j].wrap = w}) = 1

OnceInvokedByEmissionInside ==
    /\ Ended("emit")
    /\ ret.val = "true"
    /\ pre["message"] = <<PlainEntry("B"), [listener |-> "A", wrap |-> 1]>>
    /\ Len(did) = 1
    /\ did[1].op = "emit"
    /\ did[1].by = 1
    /\ Len(calls) = 3
    /\ calls[1].listener = "B" /\ calls[1].depth = 1
    /\ calls[2].listener = "B" /\ calls[2].depth = 2
    /\ calls[3].wrap = 1 /\ calls[3].depth = 2
    /\ events["message"] = <<PlainEntry("B")>>

\* C25: an emission invokes the entries its event had when it began and no
\* others: an entry a listener adds to the event while the emission is in
\* progress is not invoked by that emission.  It is registered from then on
\* (as long as nobody removes it), for emissions begun later to invoke.
AddedEntryWaitsForNextEmit ==
    /\ \A d \in 1..Len(stack) :
         EntriesOf(Mine(d))
           = Due(FirstOf(stack[d].listeners,
                         IF stack[d].pc = "body" THEN stack[d].i
                         ELSE stack[d].i - 1),
                 Mine(d))
    /\ \A a \in 1..Len(did) :
         did[a].op \in AddOps =>
            /\ did[a].wrap # 0 =>
                 \A j \in 1..Len(calls) :
                    calls[j].wrap = did[a].wrap =>
                       (j > did[a].n /\ EmissionOf(j) # EmissionOf(did[a].by))
            /\ NoRemovalAfter(a) =>
                 IF did[a].wrap = 0
                 THEN \E p \in 1..Len(events[did[a].type]) :
                         events[did[a].type][p] = PlainEntry(did[a].listener)
                 ELSE \/ did[a].wrap \in WrapsIn(events[did[a].type])
                      \/ \E j \in 1..Len(calls) : calls[j].wrap = did[a].wrap
    /\ ret.op = "emit" =>
         LET host == {j \in 1..Len(calls) : calls[j].depth = 1}
         IN  /\ Cardinality(host) <= Len(pre[ret.type])
             /\ \A j \in host :
                   \E p \in 1..Len(pre[ret.type]) :
                      pre[ret.type][p] = Entry(j)
             /\ ret.val = "true" =>
                   Cardinality(host) = Len(Due(pre[ret.type], host))

ListenerAddedDuringEmit ==
    /\ Ended("emit")
    /\ ret.val = "true"
    /\ pre["message"] = <<PlainEntry("A")>>
    /\ Invoked = <<"A">>
    /\ Len(did) = 1
    /\ did[1].op = "on"
    /\ did[1].listener = "B"
    /\ events["message"] = <<PlainEntry("A"), PlainEntry("B")>>

\* C26: an entry a listener removes from the event while the event's
\* emission is in progress, before the emission has reached it, is still
\* invoked by that emission, once: the emission invokes every entry its
\* event had when it began.  The entry is out of the sequence from the
\* removal on, so that no emission begun later finds it.
RemovedEntryStillInvoked ==
    /\ (Ended("emit") /\ ret.val = "true") =>
         LET host == {j \in 1..Len(calls) : calls[j].depth = 1}
             seq == pre[ret.type]
         IN  /\ \A w \in WrapsIn(seq) :
                  Cardinality({j \in 1..Len(calls) : calls[j].wrap = w}) = 1
             /\ \A cb \in Callbacks :
                  Cardinality({j \in host : Entry(j) = PlainEntry(cb)})
                    = Cardinality({p \in 1..Len(seq) :
                                     seq[p] = PlainEntry(cb)})
    /\ \A r \in 1..Len(did) :
         /\ (did[r].op = "off" /\ did[r].wrap > 0) =>
               \A k \in EventKeys : did[r].wrap \notin WrapsIn(events[k])
         /\ did[r].op = "removeAllListeners" =>
               WrapsIn(events[did[r].type]) \cap WrapsIn(pre[did[r].type])
                 = {}
         /\ (/\ did[r].op \in {"off", "removeAllListeners"}
             /\ \A x \in 1..Len(did) : x # r => did[x].op = "emit") =>
               LET left == PlainOnly(events[did[r].type])
                   was == PlainOnly(pre[did[r].type])
               IN  CASE did[r].op = "removeAllListeners" -> left = <<>>
                     [] did[r].wrap = 0 ->
                          /\ Len(left) = Len(was) - 1
                          /\ Occurrences(Unwrap(left), did[r].listener)
                               = Occurrences(Unwrap(was), did[r].listener) - 1
                     [] OTHER -> left = was

LaterEntryRemovedDuringEmit ==
    /\ Ended("emit")
    /\ ret.val = "true"
    /\ pre["message"] = <<PlainEntry("A"), PlainEntry("B")>>
    /\ Len(did) = 1
    /\ did[1].op = "off"
    /\ did[1].listener = "B"
    /\ did[1].by = 1
    /\ Invoked = <<"A", "B">>
    /\ events["message"] = <<PlainEntry("A")>>

\* C28: an event that has no listeners, because it never had any or because
\* they have all been removed, is an event without listeners and nothing
\* else: emit returns false and invokes nothing, listeners returns an empty
\* array, off, removeListener and removeAllListeners change nothing and
\* return the dispatcher, and on makes the listener the event's only entry.
EmptiedEventAsNeverRegistered ==
    (ret.type \in EventKeys /\ pre[ret.type] = <<>>) =>
       /\ ret.op = "emit" => (ret.val = "false" /\ calls = <<>>)
       /\ ret.op = "listeners" => ret.list = <<>>
       /\ ret.op \in {"off", "removeListener", "removeAllListeners"} =>
             (events = pre /\ ret.val = "this" /\ calls = <<>>)
       /\ ret.op = "on" =>
             /\ events[ret.type] = <<PlainEntry(ret.listener)>>
             /\ \A k \in EventKeys \ {ret.type} : events[k] = pre[k]

\* C29: only emit invokes listeners: a call of on, once, prependListener,
\* prependOnceListener, off, removeListener, removeAllListeners or listeners
\* invokes no listener, and leaves every event but the one it names as it
\* was, whatever the keys of the event map.
OnlyEmitInvokesListeners ==
    ret.op \in AddOps \cup {"off", "removeListener", "removeAllListeners",
                            "listeners"} =>
       /\ calls = <<>>
       /\ \A k \in EventKeys \ {ret.type} : events[k] = pre[k]

\* C32: emit for an event whose only listener is a once entry returns true
\* and leaves the event without listeners; every emit for the event after it,
\* until something is registered for it, invokes nothing and returns false.
OnceOnlyEmitTrueThenFalse ==
    /\ (/\ ret.op = "emit"
        /\ stack = <<>>
        /\ OnlyOnceEntry(pre[ret.type])
        /\ ret.val # "throw") =>
          /\ ret.val = "true"
          /\ events[ret.type] = <<>>
          /\ Invoked = <<pre[ret.type][1].listener>>
    /\ (ret.op = "emit" /\ ret.type \in spent) =>
          (ret.val = "false" /\ calls = <<>>)

\* C32 for every key: the same, but the emissions that follow for the event
\* error throw the unhandled error instead of returning false.
OnceOnlyEmitTrueThenFalseOrUnhandled ==
    /\ (/\ ret.op = "emit"
        /\ stack = <<>>
        /\ OnlyOnceEntry(pre[ret.type])
        /\ ret.val # "throw") =>
          /\ ret.val = "true"
          /\ events[ret.type] = <<>>
          /\ Invoked = <<pre[ret.type][1].listener>>
    /\ (ret.op = "emit" /\ ret.type \in spent) =>
          /\ calls = <<>>
          /\ events[ret.type] = <<>>
          /\ IF ret.type = "error"
             THEN ret.val = "throw" /\ ret.err = "unhandled"
             ELSE ret.val = "false"

EmitAgainAfterOnceFired ==
    /\ ret.op = "emit"
    /\ ret.type = "message"
    /\ "message" \in spent
    /\ ret.val = "false"
    /\ calls = <<>>
    /\ events["error"] # <<>>

\* C31: emit runs to completion.  When emit has returned, no emission is in
\* progress and, when it returned true, every listener it invoked has
\* returned; a listener runs only while the host's emit is in progress.  An
\* emission a listener asks for is run inside that listener's invocation:
\* every emission but the innermost is waiting in the body of a listener, and
\* an invocation made at some depth finds every earlier invocation of the
\* same or a greater depth over.
EmitRunsToCompletion ==
    /\ ret.val # "pending" => stack = <<>>
    /\ (ret.op = "emit" /\ ret.val = "true") =>
          \A j \in 1..Len(calls) : calls[j].out = "returned"
    /\ ret.val # "throw" =>
          /\ (\E j \in 1..Len(calls) : calls[j].out = "running") =>
                (ret.op = "emit" /\ ret.val = "pending")
          /\ {j \in 1..Len(calls) : calls[j].out = "running"}
               = {stack[d].at : d \in {x \in 1..Len(stack) :
                                          stack[x].pc = "body"}}
          /\ \A j, h \in 1..Len(calls) :
                (j < h /\ calls[h].depth <= calls[j].depth) =>
                   calls[j].out = "returned"
    /\ \A d \in 1..(Len(stack) - 1) :
          /\ stack[d].pc = "body"
          /\ calls[stack[d].at].depth = d
          /\ \A j \in (stack[d].at + 1)..Len(calls) : calls[j].depth > d

EmissionInsideCompletedFirst ==
    /\ Ended("emit")
    /\ ret.val = "true"
    /\ pre["message"] = <<PlainEntry("A"), PlainEntry("B")>>
    /\ Len(did) = 1
    /\ did[1].op = "emit"
    /\ did[1].by = 1
    /\ Len(calls) = 4
    /\ Invoked = <<"A", "A", "B", "B">>
    /\ calls[2].depth = 2 /\ calls[3].depth = 2
    /\ calls[1].depth = 1 /\ calls[4].depth = 1
====
